---- MODULE Spec2Model ----
(***************************************************************************)
(* eBPF/tcpconnect.bpf.c: a kprobe on tcp_connect that counts the calls    *)
(* per process in the hash map `counts` (key u32 PID, value u64 count).    *)
(*                                                                         *)
(* The probe body runs concurrently on several processors.  Each running   *)
(* instance is an invocation slot (a CPU) that walks through the lines of  *)
(* on_tcp_connect; the shared-memory accesses (map lookup, atomic add, map *)
(* update) are the atomic steps.                                           *)
(***************************************************************************)
EXTENDS Integers, FiniteSets, Sequences, TLC

(***************************************************************************)
(* Bounds of the model.                                                    *)
(***************************************************************************)
\* processors that can run the probe body at the same time
NumCpus == 2
\* thread ids inside one process (lower half of pid_tgid)
NumTids == 2
\* tcp_connect events in one run, over all processes
MaxEvents == 4
\* reads of the whole table that the reader makes between two events
MaxReads == 2

\* __uint(max_entries, 8192): the capacity of the map, scaled down to 2 so
\* that the full table is a reachable state
max_entries == 2

\* process ids (tgid) that generate events: one more than the map can hold
NumPids == max_entries + 1

Cpus == 1..NumCpus
Pids == 1..NumPids
Tids == 1..NumTids

(***************************************************************************)
(* Program constants.                                                      *)
(***************************************************************************)
\* #define BPF_ANY 0
BPF_ANY == 0

\* the pointer values of `u64 *val`
NULL == "NULL"
VALID == "VALID"      \* points to the value of the element now in the map
STALE == "STALE"      \* points to the value of an element that was replaced

\* pid of a slot that runs no invocation
NoPid == 0

\* the u64 of a slot for which none was recorded
NoCaller == <<0, 0>>

(***************************************************************************)
(* bpf_get_current_pid_tgid(): a u64, tgid in the upper 32 bits and the    *)
(* thread id in the lower 32 bits.  A u64 is kept as its two 32-bit words  *)
(* <<upper, lower>>.                                                       *)
(***************************************************************************)
bpf_get_current_pid_tgid == { <<p, t>> : p \in Pids, t \in Tids }

\* x >> 32 on a u64: the upper word moves to the lower word, zeros shift in
ShiftRight32(x) == <<0, x[1]>>

\* conversion u64 -> u32: keeps the lower word
TruncU32(x) == x[2]

\* variant: the shift is left out and the u64 is truncated as it is
PidOf_low(x) == TruncU32(x)

\* u32 pid = bpf_get_current_pid_tgid() >> 32;
PidOf(x) == TruncU32(ShiftRight32(x))

(***************************************************************************)
(* The map `counts`: a set of elements [key, value].                       *)
(***************************************************************************)
Keys(map) == { e.key : e \in map }

Elems(map, key) == { e \in map : e.key = key }

\* variant: the lookup hands out a pointer whether or not the key is there
bpf_map_lookup_elem_found(map, key) == VALID

\* bpf_map_lookup_elem(&counts, &pid): pointer to the value, or NULL
bpf_map_lookup_elem(map, key) ==
    IF Elems(map, key) # {} THEN VALID ELSE NULL

\* value stored under key (the map holds the key)
ValueOf(map, key) == (CHOOSE e \in map : e.key = key).value

\* variant: a full map admits the new key all the same
bpf_map_update_elem_nocap(map, key, value, flags) ==
    [map |-> (map \ Elems(map, key)) \cup {[key |-> key, value |-> value]},
     rc |-> "OK"]

\* variant: a full map evicts an element to make room for the new key
bpf_map_update_elem_evict(map, key, value, flags) ==
    LET old == Elems(map, key)
        new == [key |-> key, value |-> value]
        victim == IF old = {} /\ Cardinality(map) >= max_entries
                    THEN {CHOOSE e \in map : TRUE} ELSE {}
    IN  [map |-> ((map \ old) \ victim) \cup {new}, rc |-> "OK"]

\* variant: the new element is linked in and the old one is not unlinked
bpf_map_update_elem_dup(map, key, value, flags) ==
    IF Elems(map, key) = {} /\ Cardinality(map) >= max_entries
      THEN [map |-> map, rc |-> "E2BIG"]
      ELSE [map |-> map \cup {[key |-> key, value |-> value]}, rc |-> "OK"]

\* bpf_map_update_elem(&counts, &key, &value, flags) on a hash map.
\* flags 0 (BPF_ANY): create the element or replace the existing one;
\* flags 1 (BPF_NOEXIST): create only; flags 2 (BPF_EXIST): replace only.
\* A new key in a map that holds max_entries elements fails with E2BIG.
bpf_map_update_elem(map, key, value, flags) ==
    LET old == Elems(map, key)
        new == [key |-> key, value |-> value]
    IN  IF old # {} /\ flags = 1
          THEN [map |-> map, rc |-> "EEXIST"]
        ELSE IF old = {} /\ flags = 2
          THEN [map |-> map, rc |-> "ENOENT"]
        ELSE IF old = {} /\ Cardinality(map) >= max_entries
          THEN [map |-> map, rc |-> "E2BIG"]
        ELSE [map |-> (map \ old) \cup {new}, rc |-> "OK"]

\* variant: the add is a plain read and write whose write is lost
sync_fetch_and_add_lost(v, d) == v

\* variant: the add is applied twice
sync_fetch_and_add_twice(v, d) == v + d + d

\* __sync_fetch_and_add(val, 1): the new value of *val
sync_fetch_and_add(v, d) == v + d

\* variant: the add lands on every element of the map
AddInPlace_all(map, key, d) ==
    { [key |-> e.key, value |-> sync_fetch_and_add(e.value, d)] : e \in map }

\* the element of key with its value atomically incremented in place
AddInPlace(map, key, d) ==
    { IF e.key = key
        THEN [key |-> e.key, value |-> sync_fetch_and_add(e.value, d)]
        ELSE e : e \in map }

\* variant: the first event of a process is stored as 0
init_zero == 1 - 1

\* u64 init = 1
init == 1

\* return 0;
ReturnValue == 0

(***************************************************************************)
(* State.                                                                  *)
(***************************************************************************)
VARIABLES
    counts,     \* the map
    pc,         \* per cpu: "idle", "lookup", "add", "update", "ret"
    pid,        \* per cpu: local u32 pid
    val,        \* per cpu: local u64 *val
    result,     \* per cpu: values returned by on_tcp_connect so far
    started,    \* per pid: invocations entered so far
    overlap,    \* per pid: two invocations for the pid ran at the same time
    base,       \* per pid: value when the running batch began (0: absent)
    batch,      \* per pid: invocations of the running batch (0: pid is quiet)
    absent,     \* per pid: lookups so far that returned NULL
    caller,     \* per cpu: the u64 that bpf_get_current_pid_tgid returned
                \* (kept only by SpecCaller; the code drops it after the shift)
    reads       \* what the reader got, read by read, since the last probe step
                \* (every probe step empties it)

vars == <<counts, pc, pid, val, result, started, overlap, base, batch,
          absent, caller, reads>>

history == <<started, overlap, base, batch, absent>>

\* events generated so far by the processes of S
RECURSIVE Events(_)
Events(S) ==
    IF S = {} THEN 0
    ELSE LET q == CHOOSE q \in S : TRUE IN started[q] + Events(S \ {q})

\* some invocation for process p is between entry and return
Active(p) == \E i \in Cpus : pc[i] # "idle" /\ pid[i] = p

\* the invocation on cpu i is the only one running for its process
LastActive(i) == \A j \in Cpus \ {i} : pc[j] = "idle" \/ pid[j] # pid[i]

Init ==
    /\ counts = {}
    /\ pc = [i \in Cpus |-> "idle"]
    /\ pid = [i \in Cpus |-> NoPid]
    /\ val = [i \in Cpus |-> NULL]
    /\ result = [i \in Cpus |-> {}]
    /\ started = [p \in Pids |-> 0]
    /\ overlap = [p \in Pids |-> FALSE]
    /\ base = [p \in Pids |-> 0]
    /\ batch = [p \in Pids |-> 0]
    /\ absent = [p \in Pids |-> 0]
    /\ caller = [i \in Cpus |-> NoCaller]
    /\ reads = <<>>

(***************************************************************************)
(* on_tcp_connect, line by line.                                           *)
(***************************************************************************)
\* the kprobe fires on cpu i; u32 pid = bpf_get_current_pid_tgid() >> 32
Enter(i, x) ==
    LET p == PidOf(x) IN
    /\ pc[i] = "idle"
    /\ Events(Pids) < MaxEvents
    /\ pc' = [pc EXCEPT ![i] = "lookup"]
    /\ pid' = [pid EXCEPT ![i] = p]
    /\ started' = [started EXCEPT ![p] = @ + 1]
    /\ overlap' = [overlap EXCEPT ![p] = @ \/ Active(p)]
    /\ base' = [base EXCEPT ![p] =
                  IF Active(p) THEN @
                  ELSE IF p \in Keys(counts) THEN ValueOf(counts, p) ELSE 0]
    /\ batch' = [batch EXCEPT ![p] = IF Active(p) THEN @ + 1 ELSE 1]
    /\ UNCHANGED <<counts, val, result, absent>>
    /\ reads' = <<>>

\* u64 init = 1, *val = bpf_map_lookup_elem(&counts, &pid); if (val) ... else
Lookup(i) ==
    LET v == bpf_map_lookup_elem(counts, pid[i]) IN
    /\ pc[i] = "lookup"
    /\ val' = [val EXCEPT ![i] = v]
    /\ pc' = [pc EXCEPT ![i] = IF v # NULL THEN "add" ELSE "update"]
    /\ absent' = [absent EXCEPT ![pid[i]] = IF v = NULL THEN @ + 1 ELSE @]
    /\ UNCHANGED <<counts, pid, result>>
    /\ UNCHANGED <<started, overlap, base, batch>>
    /\ reads' = <<>>
    /\ UNCHANGED caller

\* if (val) __sync_fetch_and_add(val, 1);
\* A pointer to a replaced element no longer names the element in the
\* map: the add goes to the old element (lost) or, where the update wrote
\* the value in place, to the live one.
FetchAndAdd(i) ==
    /\ pc[i] = "add"
    /\ \/ /\ val[i] = VALID
          /\ counts' = AddInPlace(counts, pid[i], 1)
       \/ /\ val[i] = STALE
          /\ counts' = counts
       \/ /\ val[i] = STALE
          /\ counts' = AddInPlace(counts, pid[i], 1)
    /\ pc' = [pc EXCEPT ![i] = "ret"]
    /\ UNCHANGED <<pid, val, result>>
    /\ UNCHANGED history
    /\ reads' = <<>>
    /\ UNCHANGED caller

\* variant: the insert is retried until the map accepts it
UpdateElem_retry(i) ==
    LET r == bpf_map_update_elem(counts, pid[i], init, BPF_ANY) IN
    /\ pc[i] = "update"
    /\ counts' = r.map
    /\ pc' = [pc EXCEPT ![i] = IF r.rc = "OK" THEN "ret" ELSE "update"]
    /\ UNCHANGED <<pid, val, result>>
    /\ UNCHANGED history
    /\ reads' = <<>>
    /\ UNCHANGED caller

\* else bpf_map_update_elem(&counts, &pid, &init, BPF_ANY);
UpdateElem(i) ==
    LET r == bpf_map_update_elem(counts, pid[i], init, BPF_ANY)
        replaced == r.rc = "OK" /\ pid[i] \in Keys(counts)
    IN
    /\ pc[i] = "update"
    /\ counts' = r.map
    /\ val' = [j \in Cpus |->
                 IF replaced /\ pc[j] = "add" /\ pid[j] = pid[i] /\ val[j] = VALID
                   THEN STALE ELSE val[j]]
    /\ pc' = [pc EXCEPT ![i] = "ret"]
    /\ UNCHANGED <<pid, result>>
    /\ UNCHANGED history
    /\ reads' = <<>>
    /\ UNCHANGED caller

\* return 0;
Return(i) ==
    /\ pc[i] = "ret"
    /\ result' = [result EXCEPT ![i] = @ \cup {ReturnValue}]
    /\ pc' = [pc EXCEPT ![i] = "idle"]
    /\ pid' = [pid EXCEPT ![i] = NoPid]
    /\ val' = [val EXCEPT ![i] = NULL]
    /\ base' = [base EXCEPT ![pid[i]] = IF LastActive(i) THEN 0 ELSE @]
    /\ batch' = [batch EXCEPT ![pid[i]] = IF LastActive(i) THEN 0 ELSE @]
    /\ UNCHANGED <<counts, started, overlap, absent>>
    /\ reads' = <<>>
    /\ caller' = [caller EXCEPT ![i] = NoCaller]

\* a step of the probe on some cpu; it ends the reader's run of reads
Next ==
    \/ \E i \in Cpus, x \in bpf_get_current_pid_tgid :
          Enter(i, x) /\ UNCHANGED caller
    \/ \E i \in Cpus : Lookup(i)
    \/ \E i \in Cpus : FetchAndAdd(i)
    \/ \E i \in Cpus : UpdateElem(i)
    \/ \E i \in Cpus : Return(i)

\* what a reader gets that enumerates the keys and reads each value
ReadAll(map) == { <<k, ValueOf(map, k)>> : k \in Keys(map) }

\* variant: the reader takes the elements out of the map as it reads them
AfterRead_drain(map) == {}

\* the map after a read of the whole table
AfterRead(map) == map

\* the userspace reader reads the whole table
Read ==
    /\ Len(reads) < MaxReads
    /\ reads' = Append(reads, ReadAll(counts))
    /\ counts' = AfterRead(counts)
    /\ UNCHANGED <<pc, pid, val, result>>
    /\ UNCHANGED history
    /\ UNCHANGED caller

Spec == Init /\ [][Next]_vars

\* the probe together with a reader of the table
NextRead == Next \/ Read

SpecRead == Init /\ [][NextRead]_vars

\* the probe, with the u64 of the calling thread kept next to each invocation
NextCaller ==
    \/ \E i \in Cpus, x \in bpf_get_current_pid_tgid :
          Enter(i, x) /\ caller' = [caller EXCEPT ![i] = x]
    \/ \E i \in Cpus : Lookup(i)
    \/ \E i \in Cpus : FetchAndAdd(i)
    \/ \E i \in Cpus : UpdateElem(i)
    \/ \E i \in Cpus : Return(i)

SpecCaller == Init /\ [][NextCaller]_vars

\* the steps of the invocation running on cpu i, after its entry
Run(i) == Lookup(i) \/ FetchAndAdd(i) \/ UpdateElem(i) \/ Return(i)

\* a kprobe handler is not preempted: once entered, the cpu runs it on
FairSpec == Spec /\ \A i \in Cpus : WF_vars(Run(i))

TypeOK ==
    /\ \A e \in counts : e.key \in Pids /\ e.value \in 1..MaxEvents
    /\ \A i \in Cpus : pc[i] \in {"idle", "lookup", "add", "update", "ret"}
    /\ \A i \in Cpus : val[i] \in {NULL, VALID, STALE}
    /\ \A i \in Cpus : pid[i] \in Pids \cup {NoPid}

(***************************************************************************)
(* Vocabulary of the properties.                                           *)
(***************************************************************************)
\* no invocation for process p is running
Quiet(p) == ~Active(p)

\* process ids that have generated an event
Seen == { q \in Pids : started[q] > 0 }

\* process p has, or is sure to get, an element: it is in the map, or the
\* processes seen so far all fit
Room(p) == p \in Keys(counts) \/ Cardinality(Seen) <= max_entries

\* the map is full
Full(map) == Cardinality(Keys(map)) = max_entries

\* cpu i takes a step of on_tcp_connect
Steps(i) == pc'[i] # pc[i]

\* the process id of the invocation that cpu i is stepping
StepPid(i) == IF pc[i] = "idle" THEN pid'[i] ELSE pid[i]

(***************************************************************************)
(* C1: the value stored for a process never decreases while its entry      *)
(* exists: every step leaves it unchanged or increases it.                 *)
(***************************************************************************)
C1_ValueNeverDecreases ==
    [][\A p \in Pids :
         (p \in Keys(counts) /\ p \in Keys(counts'))
            => ValueOf(counts', p) >= ValueOf(counts, p)]_vars

(***************************************************************************)
(* C2: the insert step is insert-if-absent: when the invocation that saw   *)
(* "absent" executes its insert while an entry for its process is already  *)
(* present, the map (and so the existing value) is left unchanged.         *)
(***************************************************************************)
C2_InsertIfAbsent ==
    [][\A i \in Cpus :
         (pc[i] = "update" /\ pc'[i] = "ret" /\ pid[i] \in Keys(counts))
            => counts' = counts]_vars

(***************************************************************************)
(* C3: after two invocations that are the first two events of a process    *)
(* (run concurrently or not, the map having room) have returned, the map   *)
(* holds exactly one entry for the process and its value is 1 or 2.        *)
(***************************************************************************)
C3_FirstRaceOneOrTwo ==
    \A p \in Pids :
        (started[p] = 2 /\ Quiet(p) /\ Room(p))
           => /\ Cardinality(Elems(counts, p)) = 1
              /\ ValueOf(counts, p) \in {1, 2}

\* the two first events raced and one of them was not counted
C3_Witness ==
    \E p \in Pids :
        /\ started[p] = 2 /\ overlap[p] /\ Quiet(p)
        /\ Elems(counts, p) = {[key |-> p, value |-> 1]}

(***************************************************************************)
(* C4: when one process alone generates N events and their invocations run *)
(* one after another, the count stored for it after the N-th return is N.  *)
(***************************************************************************)
C4_SequentialCountsN ==
    \A p \in Pids :
        (Seen = {p} /\ ~overlap[p] /\ Quiet(p))
           => Elems(counts, p) = {[key |-> p, value |-> started[p]]}

\* as scenario A: one process, MaxEvents sequential events, all counted
C4_Witness ==
    \E p \in Pids :
        /\ Seen = {p} /\ ~overlap[p] /\ Quiet(p)
        /\ started[p] = MaxEvents
        /\ counts = {[key |-> p, value |-> MaxEvents]}

(***************************************************************************)
(* C5: no lost updates on an existing entry: when the entry of a process   *)
(* exists with value v while no invocation for it runs, and n invocations  *)
(* for it then run concurrently, the value is v + n once the last of them  *)
(* is at its return.                                                       *)
(***************************************************************************)
C5_NoLostUpdates ==
    \A i \in Cpus :
        (pc[i] = "ret" /\ LastActive(i) /\ base[pid[i]] >= 1)
           => Elems(counts, pid[i]) =
                 {[key |-> pid[i], value |-> base[pid[i]] + batch[pid[i]]]}

\* two invocations overlapped on an existing entry and both were counted
C5_Witness ==
    \E i \in Cpus :
        /\ pc[i] = "ret" /\ LastActive(i)
        /\ base[pid[i]] >= 1 /\ batch[pid[i]] >= 2
        /\ ValueOf(counts, pid[i]) = base[pid[i]] + batch[pid[i]]

(***************************************************************************)
(* C6: two distinct processes whose invocations interleave with each       *)
(* other, the events of each one being sequential and the map having room, *)
(* end with their own numbers of events as counts.                         *)
(***************************************************************************)
C6_IndependentCounts ==
    \A p1 \in Pids : \A p2 \in Pids \ {p1} :
        (/\ started[p1] > 0 /\ started[p2] > 0
         /\ ~overlap[p1] /\ ~overlap[p2]
         /\ Quiet(p1) /\ Quiet(p2)
         /\ Room(p1) /\ Room(p2))
           => /\ Elems(counts, p1) = {[key |-> p1, value |-> started[p1]]}
              /\ Elems(counts, p2) = {[key |-> p2, value |-> started[p2]]}

\* as scenario B: two processes, two events each, each counted for itself
C6_Witness ==
    \E p1 \in Pids : \E p2 \in Pids \ {p1} :
        /\ ~overlap[p1] /\ ~overlap[p2] /\ Quiet(p1) /\ Quiet(p2)
        /\ started[p1] = 2 /\ started[p2] = 2
        /\ counts = {[key |-> p1, value |-> 2], [key |-> p2, value |-> 2]}

(***************************************************************************)
(* C7: while the map holds max_entries keys, every step of an invocation   *)
(* for a process that is not a key leaves the map unchanged, and the       *)
(* invocation returns 0.                                                   *)
(***************************************************************************)
C7_FullTableUnchanged ==
    [][\A i \in Cpus :
         (Steps(i) /\ Full(counts) /\ StepPid(i) \notin Keys(counts))
            => /\ counts' = counts
               /\ pc'[i] = "idle" => result'[i] = {0}]_vars

\* an insert was refused by the full map
C7_Witness ==
    \E i \in Cpus :
        /\ pc[i] = "ret" /\ val[i] = NULL
        /\ pid[i] \notin Keys(counts)
        /\ Full(counts)

(***************************************************************************)
(* C8: the map never holds more than max_entries distinct keys.            *)
(***************************************************************************)
C8_CapacityBound ==
    /\ Cardinality(Keys(counts)) <= max_entries
    /\ Cardinality(counts) <= max_entries

\* two new processes raced for the last free slot: one got it
C8_Witness ==
    \E i \in Cpus : \E j \in Cpus \ {i} :
        /\ pc[i] = "ret" /\ val[i] = NULL /\ pid[i] \in Keys(counts)
        /\ pc[j] = "ret" /\ val[j] = NULL /\ pid[j] \notin Keys(counts)
        /\ ValueOf(counts, pid[i]) = 1
        /\ Full(counts)

(***************************************************************************)
(* C9: the value stored for a process is never more than the number of     *)
(* invocations for it that have started.                                   *)
(***************************************************************************)
C9_NeverOvercounts ==
    \A e \in counts : e.value <= started[e.key]

\* an undercount: events of a process were dropped
C9_Witness ==
    \E e \in counts : Quiet(e.key) /\ e.value < started[e.key]

(***************************************************************************)
(* C10: no eviction: a key of the map stays a key, and a step of an        *)
(* invocation leaves the element of every other process as it is.          *)
(***************************************************************************)
C10_NoEviction ==
    [][/\ Keys(counts) \subseteq Keys(counts')
       /\ \A i \in Cpus : Steps(i) =>
             \A e \in counts : e.key # StepPid(i) => e \in counts']_vars

\* the full map turned a process away and kept its keys
C10_Witness ==
    \E p \in Pids :
        /\ started[p] > 0 /\ Quiet(p) /\ p \notin Keys(counts)
        /\ Full(counts)
        /\ \A q \in Pids : Quiet(q)
(***************************************************************************)
(* C11: every invocation terminates: it reaches its return of 0 by its    *)
(* own steps (lookup, then one of add or insert, then return), and every   *)
(* one of these steps can be taken whatever the other invocations do.      *)
(***************************************************************************)
C11_Terminates ==
    /\ \A i \in Cpus : (pc[i] # "idle") ~> (pc[i] = "idle" /\ result[i] = {0})
    /\ [](\A i \in Cpus : pc[i] # "idle" => ENABLED Run(i))
    /\ [][\A i \in Cpus : Steps(i) =>
             \/ pc[i] = "idle" /\ pc'[i] = "lookup"
             \/ pc[i] = "lookup" /\ pc'[i] \in {"add", "update"}
             \/ pc[i] \in {"add", "update"} /\ pc'[i] = "ret"
             \/ pc[i] = "ret" /\ pc'[i] = "idle"]_vars

\* every event was handled and every invocation has returned 0, one of
\* them after the full map refused its insert
C11_Witness ==
    /\ Events(Pids) = MaxEvents
    /\ \A i \in Cpus : pc[i] = "idle" /\ result[i] = {0}
    /\ \E p \in Seen : p \notin Keys(counts)
(***************************************************************************)
(* C12: the map holds at most one element per process id, also when the    *)
(* first events of a process race to insert it.                            *)
(***************************************************************************)
C12_OneEntryPerPid ==
    \A p \in Pids : Cardinality(Elems(counts, p)) <= 1

\* two invocations that both saw "absent" have both inserted the same pid
C12_Witness ==
    \E i \in Cpus : \E j \in Cpus \ {i} :
        /\ pc[i] = "ret" /\ val[i] = NULL
        /\ pc[j] = "ret" /\ val[j] = NULL
        /\ pid[i] = pid[j]
        /\ Cardinality(Elems(counts, pid[i])) = 1
C14_OnlyOwnEntry ==
    [][\A i \in Cpus : Steps(i) =>
          /\ \A e \in counts \cup counts' :
                e.key # StepPid(i) => (e \in counts <=> e \in counts')
          /\ counts' # counts =>
                (pc[i] \in {"add", "update"} /\ pc'[i] = "ret")]_vars

\* an invocation has added to its own element next to another process's
C14_Witness ==
    \E i \in Cpus :
        /\ pc[i] = "ret" /\ val[i] = VALID
        /\ ValueOf(counts, pid[i]) >= 2
        /\ \E e \in counts : e.key # pid[i] /\ e.value = started[e.key]
(***************************************************************************)
(* C15: when at most one of the n invocations for a process sees "absent"  *)
(* at its lookup and the map has room for the process, no event is lost:   *)
(* once the n have returned, the count stored for the process is n.        *)
(***************************************************************************)
C15_OneAbsentNoLoss ==
    \A p \in Pids :
        (started[p] >= 1 /\ Quiet(p) /\ absent[p] <= 1 /\ Room(p))
           => Elems(counts, p) = {[key |-> p, value |-> started[p]]}

\* invocations for one process overlapped, one saw "absent", all counted
C15_Witness ==
    \E p \in Pids :
        /\ started[p] >= 3 /\ overlap[p] /\ Quiet(p)
        /\ absent[p] = 1
        /\ Elems(counts, p) = {[key |-> p, value |-> started[p]]}
(***************************************************************************)
(* C16: once the n >= 1 invocations for a process have returned, the map   *)
(* having had room for it, the process has an entry whose value v has      *)
(* 1 <= v <= n: at least one event is counted, however they interleave.    *)
(***************************************************************************)
C16_AtLeastOneCounted ==
    \A p \in Pids :
        (started[p] >= 1 /\ Quiet(p) /\ Room(p))
           => /\ Cardinality(Elems(counts, p)) = 1
              /\ ValueOf(counts, p) >= 1
              /\ ValueOf(counts, p) <= started[p]

\* three events of a process, two of them counted
C16_Witness ==
    \E p \in Pids :
        /\ started[p] = 3 /\ overlap[p] /\ Quiet(p)
        /\ Elems(counts, p) = {[key |-> p, value |-> 2]}
(***************************************************************************)
(* C17: while the map is full, the add of an invocation for a process that *)
(* is a key increments the value of that process by exactly 1 and changes  *)
(* nothing else in the map.                                                *)
(***************************************************************************)
C17_FullStillIncrements ==
    [][\A i \in Cpus :
         (pc[i] = "add" /\ pc'[i] = "ret" /\ Full(counts))
            => counts' =
                 { IF e.key = pid[i]
                     THEN [key |-> e.key, value |-> e.value + 1]
                     ELSE e : e \in counts }]_vars
(***************************************************************************)
(* C18: the key of an invocation is the upper 32 bits of the u64 that      *)
(* bpf_get_current_pid_tgid returned: invocations whose u64 agree in the   *)
(* upper word (threads of one process) work on the same entry, whatever    *)
(* the lower words are, and invocations whose u64 differ in the upper word *)
(* work on different entries.                                              *)
(***************************************************************************)
C18_KeyIsUpperWord ==
    /\ [](\A i \in Cpus : pc[i] # "idle" =>
            /\ pid[i] = caller[i][1]
            /\ \A j \in Cpus : pc[j] # "idle" =>
                  (pid[i] = pid[j] <=> caller[i][1] = caller[j][1]))
    /\ [][\A i \in Cpus : (Steps(i) /\ pc[i] # "idle") =>
             \A e \in (counts \ counts') \cup (counts' \ counts) :
                e.key = caller[i][1]]_vars

\* two threads of one process: the first inserted the entry, the second
\* added to it
C18_Witness ==
    \E i \in Cpus : \E j \in Cpus \ {i} :
        /\ pc[i] = "ret" /\ val[i] = NULL
        /\ pc[j] = "ret" /\ val[j] = VALID
        /\ caller[i][1] = caller[j][1]
        /\ caller[i][2] # caller[j][2]
        /\ Elems(counts, caller[i][1]) = {[key |-> caller[i][1], value |-> 2]}
====
